---- MODULE Spec2Model ----
\* Model of src/script_translator.py: GameTranslator (constructor, translate,
\* whisper_cpp_transcription, llama_translation) driven by main().
\* Strings the program manipulates character-wise (paths, languages, texts)
\* are sequences of one-character strings.
EXTENDS Integers, Sequences, FiniteSets, TLC

\* ---------------------------------------------------------------- bounds
MaxPieces == 2
MaxTime == 2

\* ---------------------------------------------------------------- inputs
PathPieces == {<<"a">>, <<".", "w", "a", "v">>, <<".", "t", "x", "t">>}

RECURSIVE Concats(_)
Concats(n) == IF n = 0 THEN {<<>>}
              ELSE Concats(n - 1) \cup {p \o q : p \in PathPieces, q \in Concats(n - 1)}

Paths == Concats(MaxPieces) \ {<<>>}

Models == {"whisper_cpp", "unknown_engine"}

LangInputs == {<<"E", "n">>, <<"e", "n">>, <<"R", "u">>}

\* contents the external tools may produce (before strip())
\* "NUL" stands for the character \x00 (the audio file itself can be read as text)
RawFileTexts == {<<>>, <<" ", "\n">>, <<"H", "i">>, <<" ", "H", "i", "\n">>, <<"H", "NUL">>}
RawStdouts == {<<>>, <<"P", "r", "\n">>}

\* ---------------------------------------------------------------- string helpers
\* str.lower()
LowerChar(c) == CASE c = "E" -> "e"
                  [] c = "R" -> "r"
                  [] OTHER -> c
Lower(s) == [i \in 1..Len(s) |-> LowerChar(s[i])]

\* str.strip()
IsSpace(c) == c \in {" ", "\n"}
RECURSIVE LStrip(_)
LStrip(s) == IF s /= <<>> /\ IsSpace(Head(s)) THEN LStrip(Tail(s)) ELSE s
RECURSIVE RStrip(_)
RStrip(s) == IF s /= <<>> /\ IsSpace(s[Len(s)]) THEN RStrip(SubSeq(s, 1, Len(s) - 1)) ELSE s
Strip(s) == RStrip(LStrip(s))

\* str.replace(old, new): left-to-right, non-overlapping
RECURSIVE Replace(_, _, _)
Replace(s, old, new) ==
  IF Len(s) < Len(old) THEN s
  ELSE IF SubSeq(s, 1, Len(old)) = old
       THEN new \o Replace(SubSeq(s, Len(old) + 1, Len(s)), old, new)
       ELSE <<Head(s)>> \o Replace(Tail(s), old, new)

WavTxt == <<".", "w", "a", "v", ".", "t", "x", "t">>
Txt == <<".", "t", "x", "t">>

\* result_file = self.filepath.replace(".wav.txt", ".txt")
ResultFile(path) == Replace(path, WavTxt, Txt)

\* `not text`
NotText(t) == t = <<>>

WhisperCmd(path, lang) ==
  <<"./whisper.cpp/main", "-m", "./whisper.cpp/models/ggml-base.en.bin",
    "-f", path, "-l", lang, "-otxt">>

\* subprocess.run raises ValueError("embedded null byte") for such an argument
ContainsNul(t) == \E i \in 1..Len(t) : t[i] = "NUL"

PromptOf(lang, t) == <<"Translate the following text to ">> \o lang \o <<":", " ">> \o t

IsLlama(s) == s.prog = "ollama"
IsWhisper(s) == s.prog = "./whisper.cpp/main"

\* ---------------------------------------------------------------- state
VARIABLES
  argModel, argFile, argPre, argIn, argOut, viaCli,   \* constructor arguments
  stdoutEncodes,        \* sys.stdout's encoding can encode the Cyrillic messages
  transcription_model, filepath, pre_recorded,
  input_language, output_language, elapsed_time,      \* GameTranslator fields
  elapsedWrites, start_time, end_time, clock,
  pc, exc, text, translation, result,
  spawns, readFile, readOutcome, stageReturned, llamaStatus,
  exitCode, printed, mainExc

argVars == <<argModel, argFile, argPre, argIn, argOut, viaCli, stdoutEncodes>>
cfgVars == <<transcription_model, filepath, pre_recorded, input_language, output_language>>
timeVars == <<elapsed_time, elapsedWrites, start_time, end_time, clock>>
readVars == <<readFile, readOutcome, stageReturned>>
mainVars == <<exitCode, printed, mainExc>>

vars == <<argVars, cfgVars, timeVars, readVars, mainVars,
          pc, exc, text, translation, result, spawns, llamaStatus>>

Init ==
  /\ viaCli \in BOOLEAN
  /\ argModel \in Models
  \* argparse choices=["whisper_cpp"] when called through main()
  /\ viaCli => argModel = "whisper_cpp"
  /\ argFile \in Paths
  /\ argPre \in BOOLEAN
  /\ argIn \in LangInputs
  /\ argOut \in LangInputs
  /\ stdoutEncodes \in BOOLEAN
  /\ transcription_model = "" /\ filepath = <<>> /\ pre_recorded = FALSE
  /\ input_language = <<>> /\ output_language = <<>> /\ elapsed_time = 0
  /\ elapsedWrites = 0 /\ start_time = 0 /\ end_time = 0
  /\ clock \in 0..MaxTime
  /\ pc = "args"
  /\ exc = "none"
  /\ text = <<>> /\ translation = <<>> /\ result = <<>>
  /\ spawns = <<>>
  /\ readFile = <<>> /\ readOutcome = "none" /\ stageReturned = FALSE
  /\ llamaStatus = "none"
  /\ exitCode = -1 /\ printed = <<>> /\ mainExc = "none"

ConstructRaw ==
  /\ pc = "args"
  /\ pre_recorded' = argPre
  /\ transcription_model' = argModel
  /\ filepath' = argFile
  /\ input_language' = argIn
  /\ output_language' = argOut
  /\ elapsed_time' = 0
  /\ pc' = "idle"
  /\ UNCHANGED <<argVars, readVars, mainVars, elapsedWrites, start_time, end_time,
                 clock, exc, text, translation, result, spawns, llamaStatus>>

\* GameTranslator.__init__
Construct ==
  /\ pc = "args"
  /\ pre_recorded' = argPre
  /\ transcription_model' = argModel
  /\ filepath' = argFile
  /\ input_language' = Lower(argIn)
  /\ output_language' = Lower(argOut)
  /\ elapsed_time' = 0
  /\ pc' = "idle"
  /\ UNCHANGED <<argVars, readVars, mainVars, elapsedWrites, start_time, end_time,
                 clock, exc, text, translation, result, spawns, llamaStatus>>

TranslateStartNoCheck ==
  /\ pc = "idle"
  /\ start_time' = clock
  /\ pc' = "transcribe" /\ UNCHANGED exc
  /\ UNCHANGED <<argVars, cfgVars, readVars, mainVars, elapsed_time, elapsedWrites,
                 end_time, clock, text, translation, result, spawns, llamaStatus>>

\* translate(), lines 141-148: start_time, show_translator_info (ASCII
\* only for the modelled inputs), model dispatch
TranslateStart ==
  /\ pc = "idle"
  /\ start_time' = clock
  /\ IF transcription_model = "whisper_cpp"
       THEN pc' = "transcribe" /\ UNCHANGED exc
       ELSE pc' = "raised" /\ exc' = "ValueError"
  /\ UNCHANGED <<argVars, cfgVars, readVars, mainVars, elapsed_time, elapsedWrites,
                 end_time, clock, text, translation, result, spawns, llamaStatus>>

ReadResultAbsorbing(rf) ==
  /\ readFile' = rf
  /\ \E present \in BOOLEAN, r \in RawFileTexts :
       IF ~present
         THEN /\ readOutcome' = "missing" /\ text' = <<>>
              /\ stageReturned' = TRUE /\ pc' = "after_transcribe" /\ UNCHANGED exc
         ELSE /\ readOutcome' = "read" /\ text' = Strip(r)
              /\ stageReturned' = TRUE /\ pc' = "after_transcribe" /\ UNCHANGED exc

\* whisper_cpp_transcription, lines 99-100: open(result_file) and f.read().strip()
\* after the process exited 0.  The engine may exit 0 without reading or
\* writing anything, so any path (the audio path included) may be absent, a
\* directory, unreadable (EACCES), a symlink loop (ELOOP), or a file whose
\* bytes may or may not decode as text.  Only CalledProcessError is caught, so
\* every open/read error propagates.
ReadResult(rf) ==
  /\ readFile' = rf
  /\ \E kind \in {"absent", "dir", "denied", "loop", "file"},
        decodes \in BOOLEAN, r \in RawFileTexts :
       CASE kind = "absent" ->
              /\ readOutcome' = "missing" /\ exc' = "FileNotFoundError"
              /\ pc' = "raised" /\ UNCHANGED <<text, stageReturned>>
         [] kind = "dir" ->
              /\ readOutcome' = "os_error" /\ exc' = "IsADirectoryError"
              /\ pc' = "raised" /\ UNCHANGED <<text, stageReturned>>
         [] kind = "denied" ->
              /\ readOutcome' = "os_error" /\ exc' = "PermissionError"
              /\ pc' = "raised" /\ UNCHANGED <<text, stageReturned>>
         [] kind = "loop" ->
              /\ readOutcome' = "os_error" /\ exc' = "OSError(ELOOP)"
              /\ pc' = "raised" /\ UNCHANGED <<text, stageReturned>>
         [] kind = "file" /\ ~decodes ->
              /\ readOutcome' = "decode_error" /\ exc' = "UnicodeDecodeError"
              /\ pc' = "raised" /\ UNCHANGED <<text, stageReturned>>
         [] kind = "file" /\ decodes ->
              /\ readOutcome' = "read" /\ text' = Strip(r)
              /\ stageReturned' = TRUE
              /\ pc' = "after_transcribe" /\ UNCHANGED exc

\* whisper_cpp_transcription, lines 85-105 (pre_recorded is TRUE)
WhisperRun ==
  /\ \E outcome \in {"ok", "fail", "nospawn"} :
       CASE outcome = "nospawn" ->
              \* subprocess.run raises OSError: not a CalledProcessError
              /\ exc' = "OSError" /\ pc' = "raised"
              /\ UNCHANGED <<spawns, text, readVars>>
         [] outcome = "fail" ->
              /\ spawns' = Append(spawns, [prog |-> "./whisper.cpp/main",
                                           argv |-> WhisperCmd(filepath, input_language)])
              /\ UNCHANGED <<readFile, readOutcome>>
              \* line 102 prints a Cyrillic message
              /\ IF stdoutEncodes
                   THEN /\ text' = <<>> /\ stageReturned' = TRUE
                        /\ pc' = "after_transcribe" /\ UNCHANGED exc
                   ELSE /\ exc' = "UnicodeEncodeError" /\ pc' = "raised"
                        /\ UNCHANGED <<text, stageReturned>>
         [] outcome = "ok" ->
              /\ spawns' = Append(spawns, [prog |-> "./whisper.cpp/main",
                                           argv |-> WhisperCmd(filepath, input_language)])
              /\ ReadResult(ResultFile(filepath))

WhisperTranscriptionNoLiveCheck ==
  /\ pc = "transcribe"
  /\ WhisperRun
  /\ UNCHANGED <<argVars, cfgVars, timeVars, mainVars, translation, result, llamaStatus>>

\* whisper_cpp_transcription, lines 72-105
WhisperTranscription ==
  /\ pc = "transcribe"
  /\ IF ~pre_recorded
       THEN /\ exc' = "NotImplementedError" /\ pc' = "raised"
            /\ UNCHANGED <<spawns, text, readVars>>
       ELSE WhisperRun
  /\ UNCHANGED <<argVars, cfgVars, timeVars, mainVars, translation, result, llamaStatus>>

\* translate(), lines 150-152: empty transcription; line 151 prints a
\* Cyrillic message before returning ""
ShortCircuit ==
  /\ IF stdoutEncodes
       THEN result' = <<>> /\ pc' = "done" /\ UNCHANGED exc
       ELSE exc' = "UnicodeEncodeError" /\ pc' = "raised" /\ UNCHANGED result
  /\ UNCHANGED <<elapsed_time, elapsedWrites, end_time, spawns, translation, llamaStatus>>

LlamaCmd(t) == <<"ollama", "run", "llama3", PromptOf(output_language, t)>>

\* llama_translation (lines 107-130) followed by translate() lines 155-159.
\* subprocess.run rejects a NUL in an argument with ValueError before
\* spawning; with text=True it decodes the captured output before check=True
\* looks at the exit status, so undecodable output raises UnicodeDecodeError
\* whatever the exit status; line 129 prints a Cyrillic message.
LlamaStep ==
  \E outcome \in {"ok", "fail", "nospawn", "undecodable_ok", "undecodable_fail"} :
    CASE ContainsNul(text) ->
           /\ exc' = "ValueError" /\ pc' = "raised"
           /\ UNCHANGED <<elapsed_time, elapsedWrites, end_time, spawns,
                          translation, result, llamaStatus>>
      [] outcome = "nospawn" ->
           /\ exc' = "OSError" /\ pc' = "raised"
           /\ UNCHANGED <<elapsed_time, elapsedWrites, end_time, spawns,
                          translation, result, llamaStatus>>
      [] outcome \in {"undecodable_ok", "undecodable_fail"} ->
           /\ spawns' = Append(spawns, [prog |-> "ollama", argv |-> LlamaCmd(text)])
           /\ llamaStatus' = IF outcome = "undecodable_ok" THEN "ok" ELSE "fail"
           /\ exc' = "UnicodeDecodeError" /\ pc' = "raised"
           /\ UNCHANGED <<elapsed_time, elapsedWrites, end_time, translation, result>>
      [] outcome = "fail" /\ ~stdoutEncodes ->
           /\ spawns' = Append(spawns, [prog |-> "ollama", argv |-> LlamaCmd(text)])
           /\ llamaStatus' = "fail"
           /\ exc' = "UnicodeEncodeError" /\ pc' = "raised"
           /\ UNCHANGED <<elapsed_time, elapsedWrites, end_time, translation, result>>
      [] outcome = "fail" /\ stdoutEncodes ->
           /\ spawns' = Append(spawns, [prog |-> "ollama", argv |-> LlamaCmd(text)])
           /\ llamaStatus' = "fail"
           /\ translation' = <<>>
           /\ end_time' = clock
           /\ elapsed_time' = clock - start_time
           /\ elapsedWrites' = elapsedWrites + 1
           /\ result' = <<>>
           /\ pc' = "done" /\ UNCHANGED exc
      [] outcome = "ok" ->
           /\ spawns' = Append(spawns, [prog |-> "ollama", argv |-> LlamaCmd(text)])
           /\ llamaStatus' = "ok"
           /\ \E raw \in RawStdouts :
                /\ translation' = Strip(raw)
                /\ result' = Strip(raw)
           /\ end_time' = clock
           /\ elapsed_time' = clock - start_time
           /\ elapsedWrites' = elapsedWrites + 1
           /\ pc' = "done" /\ UNCHANGED exc

\* translate(), lines 150-159
AfterTranscription ==
  /\ pc = "after_transcribe"
  /\ IF NotText(text) THEN ShortCircuit ELSE LlamaStep
  /\ UNCHANGED <<argVars, cfgVars, readVars, mainVars, start_time, clock, text>>

MainFinishAlwaysZero ==
  /\ viaCli
  /\ pc \in {"done", "raised"}
  /\ printed' = result /\ exitCode' = 0 /\ mainExc' = "none"
  /\ pc' = "exited"
  /\ UNCHANGED <<argVars, cfgVars, timeVars, readVars, exc, text, translation,
                 result, spawns, llamaStatus>>

\* main(), lines 212-213, and interpreter exit: an exception escaping main()
\* exits with status 1; line 213 prints "Перевод:" (Cyrillic)
MainFinish ==
  /\ viaCli
  /\ pc \in {"done", "raised"}
  /\ CASE pc = "raised" ->
            mainExc' = exc /\ exitCode' = 1 /\ UNCHANGED printed
       [] pc = "done" /\ stdoutEncodes ->
            mainExc' = "none" /\ exitCode' = 0 /\ printed' = result
       [] pc = "done" /\ ~stdoutEncodes ->
            mainExc' = "UnicodeEncodeError" /\ exitCode' = 1 /\ UNCHANGED printed
  /\ pc' = "exited"
  /\ UNCHANGED <<argVars, cfgVars, timeVars, readVars, exc, text, translation,
                 result, spawns, llamaStatus>>

\* time.time(): wall clock, may be adjusted in either direction
Tick ==
  /\ pc \in {"idle", "transcribe", "after_transcribe"}
  /\ clock' \in (0..MaxTime) \ {clock}
  /\ UNCHANGED <<argVars, cfgVars, readVars, mainVars, elapsed_time, elapsedWrites,
                 start_time, end_time, pc, exc, text, translation, result, spawns,
                 llamaStatus>>

Next == Construct \/ TranslateStart \/ WhisperTranscription
        \/ AfterTranscription \/ MainFinish \/ Tick

Spec == Init /\ [][Next]_vars

\* ---------------------------------------------------------------- properties
LlamaSpawns == SelectSeq(spawns, IsLlama)
WhisperSpawns == SelectSeq(spawns, IsWhisper)

\* translate() returned normally (result available)
Returned == pc = "done" \/ (pc = "exited" /\ exc = "none")

\* translate() has finished, by returning or raising
Finished == pc \in {"done", "raised", "exited"}

\* C1: when the transcription stage returns empty text, ollama is never
\* spawned and translate() returns the empty string (it does not raise).
C1_EmptyTranscriptionSkipsTranslation ==
  (stageReturned /\ text = <<>> /\ Finished)
    => (Len(LlamaSpawns) = 0 /\ exc = "none" /\ result = <<>>)

\* C2: when the transcription stage returns non-empty text T, ollama is spawned
\* exactly once with the prompt built from the lowercased output language and
\* exactly T, and translate() returns the stage's result, which is "" when
\* ollama exited non-zero.
C2_TranslationInvokedOnce ==
  (stageReturned /\ text /= <<>> /\ Finished)
    => /\ Len(LlamaSpawns) = 1
       /\ LlamaSpawns[1].argv[4] = PromptOf(Lower(argOut), text)
       /\ exc = "none"
       /\ result = translation
       /\ (llamaStatus = "fail" => result = <<>>)

\* C3: a transcription_model other than "whisper_cpp" raises ValueError before
\* any process is spawned.
C3_UnknownModelFailsFast ==
  (transcription_model /= "whisper_cpp" /\ pc \notin {"args", "idle"})
    => (exc = "ValueError" /\ spawns = <<>>)

C3_Witness == transcription_model = "unknown_engine" /\ pc = "raised"

\* C4: elapsed_time is written exactly once at the end of every run that
\* returns, including the short-circuit, with a non-negative value.
C4_ElapsedWrittenOnce ==
  Returned => (elapsedWrites = 1 /\ elapsed_time >= 0)

\* C5: a process spawn failure in either stage is absorbed as empty text and
\* never raises out of translate().
C5_SpawnFailureRecovered == exc /= "OSError"

\* C6: with pre_recorded false, transcription raises NotImplementedError and
\* no process is spawned.
C6_LiveCaptureNotImplemented ==
  (~pre_recorded /\ transcription_model = "whisper_cpp" /\ pc \notin {"args", "idle", "transcribe"})
    => (exc = "NotImplementedError" /\ spawns = <<>>)

C6_Witness == exc = "NotImplementedError" /\ pc = "raised"

\* C7: the file read after a successful transcription is never the audio file.
C7_ResultFileDistinct == readFile /= <<>> => readFile /= filepath

C9_MissingResultPropagates ==
  readOutcome = "missing" => (exc = "FileNotFoundError" /\ pc \in {"raised", "exited"})

C9_Witness == readOutcome = "missing" /\ pc = "raised"

\* C10: the constructor stores lowercased languages and both commands use them.
C10_LanguagesLowercased ==
  pc /= "args" =>
    /\ input_language = Lower(argIn)
    /\ output_language = Lower(argOut)
    /\ \A i \in 1..Len(WhisperSpawns) : WhisperSpawns[i].argv[7] = Lower(argIn)
    /\ \A i \in 1..Len(LlamaSpawns) :
         SubSeq(LlamaSpawns[i].argv[4], 2, 1 + Len(argOut)) = Lower(argOut)

C10_Witness == pc = "exited" /\ argOut /= Lower(argOut) /\ argIn /= Lower(argIn)
               /\ Len(LlamaSpawns) = 1

====
